---------------------------- MODULE Spec2Model ----------------------------
(***************************************************************************)
(* Model of the stackdriver-nozzle core:                                   *)
(*   - cloudfoundry/app_info_repository.go : appInfoRepository (the        *)
(*     AppInfo cache with its freshness window),                           *)
(*   - stackdriver telemetry sink          : telemetrySink.Init and        *)
(*     telemetrySink.Report (descriptor registration, batching, labels).   *)
(*   - nozzle/log_sink.go                  : logSink.Receive and           *)
(*     logSink.parseEnvelope (envelope to log record).                     *)
(* Strings that the code inspects or builds (metric types, descriptor      *)
(* names, the list filter) are sequences of one-character strings, so that *)
(* fmt.Sprintf is a concatenation and starts_with a real prefix test.      *)
(***************************************************************************)
EXTENDS Integers, Sequences, FiniteSets, TLC

VARIABLES
    clock,                    \* time.Now(), in ticks
    \* ---- appInfoRepository
    cache,                    \* air.cache : map[string]AppInfo
    appMetadataCachePeriod,   \* air.appMetadataCachePeriod, in seconds
    lastCall,                 \* what the latest GetAppInfo call did and returned
    lastOk,                   \* per guid, the AppInfo built by its latest successful lookup
    threads,                  \* per calling thread, where it is in GetAppInfo
    fatal,                    \* the Go runtime has thrown on a concurrent map access
    \* ---- logSink
    newlineToken,             \* ls.newlineToken
    received,                 \* the envelopes handed to Receive, in arrival order
    posted,                   \* the logs handed to logAdapter.PostLog, in call order
    errLog,                   \* what ls.logger.Error was called with
    panicked,                 \* a Receive call has panicked
    \* ---- telemetrySink
    labels,                   \* ts.labels
    startTime,                \* ts.startTime
    resource,                 \* ts.resource
    lastReport,               \* what the latest Report call handed to client.Post and logged
    \* ---- the monitoring backend behind MetricClient
    descriptors,              \* the metric descriptors the backend holds
    lastInit                  \* what the latest Init call requested

appVars == <<cache, appMetadataCachePeriod, lastCall, lastOk>>
callerVars == <<threads, fatal>>
logVars == <<newlineToken, received, posted, errLog, panicked>>
sinkVars == <<labels, startTime, resource>>
vars == <<clock, appVars, callerVars, logVars, sinkVars, lastReport, descriptors, lastInit>>

(***************************************************************************)
(* Bounds of the model.                                                    *)
(***************************************************************************)
MaxClock == 7
MaxPeriod == 2
TicksPerSecond == 2
MaxSinkClock == 3
MaxEntries == 2
MaxSeries == 3
MaxCallerClock == 2
MaxReceive == 2

(***************************************************************************)
(* Time.  The zero time.Time is 0; the clock starts after it.              *)
(***************************************************************************)
ZeroTime == 0

Tick ==
    /\ clock < MaxClock
    /\ clock' = clock + 1

(***************************************************************************)
(* Strings the telemetry sink builds and the backend inspects.             *)
(***************************************************************************)
StrProjects ==
    <<"p", "r", "o", "j", "e", "c", "t", "s", "/">>

StrCustom ==
    <<"c", "u", "s", "t", "o", "m", ".", "g", "o", "o", "g", "l", "e", "a",
      "p", "i", "s", ".", "c", "o", "m", "/">>

StrMetricDescriptors ==
    <<"/", "m", "e", "t", "r", "i", "c", "D", "e", "s", "c", "r", "i", "p",
      "t", "o", "r", "s", "/">>

\* the argument of starts_with in the filter of the list request
StrFilterPrefix ==
    <<"s", "t", "a", "c", "k", "d", "r", "i", "v", "e", "r", "-", "n", "o",
      "z", "z", "l", "e">>

KeyEv ==
    <<"e", "v">>

KeyLg ==
    <<"l", "g">>

KeyNozzleEv ==
    <<"s", "t", "a", "c", "k", "d", "r", "i", "v", "e", "r", "-", "n", "o",
      "z", "z", "l", "e", "/", "e", "v">>

\* the names of the series of a snapshot, in the order the registry lists them
KeyNames == <<KeyEv, KeyNozzleEv, KeyLg>>

ProjectID ==
    <<"p", "1">>

\* fmt.Sprintf("projects/%s", projectID)
projectPath == StrProjects \o ProjectID

\* strings.HasPrefix
HasPrefix(s, prefix) ==
    /\ Len(prefix) <= Len(s)
    /\ \A i \in 1..Len(prefix) : s[i] = prefix[i]

(***************************************************************************)
(* telemetrySink: construction                                             *)
(***************************************************************************)
Foundations == {"cf1", "cf2"}

\* the labels map literal of NewTelemetrySink
GlobalLabels(subscriptionID, foundation) ==
    [subscription_id |-> subscriptionID, foundation |-> foundation]

\* the result of detectMonitoredResource off GCE
GlobalResource == [Type |-> "global", Labels |-> <<>>]

NoReport ==
    [pc |-> "none", shapes |-> <<>>, i |-> 1,
     req |-> [Name |-> projectPath, TimeSeries |-> <<>>],
     interval |-> [StartTime |-> ZeroTime, EndTime |-> ZeroTime],
     at |-> ZeroTime, posts |-> <<>>, log |-> <<>>]

NoInit ==
    [pc |-> "none", series |-> <<>>, i |-> 1, repeat |-> FALSE, listErr |-> FALSE,
     registered |-> {}, creates |-> <<>>, log |-> <<>>]

\* the log sink, where none is under consideration
LogUnused ==
    /\ newlineToken = <<>>
    /\ received = <<>>
    /\ posted = <<>>
    /\ errLog = <<>>
    /\ panicked = FALSE

\* the telemetry sink and the backend, where no sink is under consideration
SinkUnused ==
    /\ labels = GlobalLabels("sub", "cf1")
    /\ startTime = 1
    /\ resource = GlobalResource
    /\ lastReport = NoReport
    /\ descriptors = {}
    /\ lastInit = NoInit

(***************************************************************************)
(* appInfoRepository                                                       *)
(***************************************************************************)
Guids == {"g1", "g2"}

\* what cfClient.AppByGuid can answer: an error, or an app with its space and org
Apps ==
    { [Name |-> "web", SpaceGuid |-> "s1", SpaceName |-> "dev",
       OrgGuid |-> "o1", OrgName |-> "acme"],
      [Name |-> "api", SpaceGuid |-> "s2", SpaceName |-> "prod",
       OrgGuid |-> "o1", OrgName |-> "acme"] }

LookupResults == {[err |-> TRUE]} \cup {[err |-> FALSE, app |-> a] : a \in Apps}

\* the zero value of the AppInfo struct
ZeroAppInfo ==
    [AppName |-> "", SpaceGUID |-> "", SpaceName |-> "",
     OrgGUID |-> "", OrgName |-> "", LastQueried |-> ZeroTime]

\* the composite literal of QueryCfForMetadata
BuildAppInfo(app, now) ==
    [AppName |-> app.Name, SpaceGUID |-> app.SpaceGuid, SpaceName |-> app.SpaceName,
     OrgGUID |-> app.OrgGuid, OrgName |-> app.OrgName, LastQueried |-> now]

\* air.cache[guid] = appInfo
MapPut(m, k, v) == [x \in DOMAIN m \cup {k} |-> IF x = k THEN v ELSE m[x]]

EmptyMap == [x \in {} |-> ZeroAppInfo]

\* a failed lookup that stores the empty AppInfo (negative caching)
QueryCfForMetadataNegCache(c, guid, res, now) ==
    IF ~res.err
    THEN [ret |-> ZeroAppInfo, cache |-> MapPut(c, guid, BuildAppInfo(res.app, now)),
          queries |-> 1, hit |-> FALSE]
    ELSE [ret |-> ZeroAppInfo, cache |-> MapPut(c, guid, ZeroAppInfo),
          queries |-> 1, hit |-> FALSE]

\* QueryCfForMetadata: one external query.  The AppInfo built on success is
\* bound to a new variable of the inner block (":="), stored in the cache, and
\* the function returns the outer, never assigned, appInfo.
QueryCfForMetadata(c, guid, res, now) ==
    IF ~res.err
    THEN [ret |-> ZeroAppInfo, cache |-> MapPut(c, guid, BuildAppInfo(res.app, now)),
          queries |-> 1, hit |-> FALSE]
    ELSE [ret |-> ZeroAppInfo, cache |-> c, queries |-> 1, hit |-> FALSE]

\* the freshness test with <= for <
FreshInclusive(lastQueried, now, period) ==
    (now - lastQueried) <= period * TicksPerSecond

\* time.Since(t).Seconds() < float64(period), on ticks
Fresh(lastQueried, now, period) ==
    (now - lastQueried) < period * TicksPerSecond

\* the result of GetAppInfo looking at the cache first, whatever the period
GetAppInfoResultAlwaysCached(c, period, guid, res, now) ==
    IF guid \in DOMAIN c
    THEN IF period > 0
         THEN IF Fresh(c[guid].LastQueried, now, period)
              THEN [ret |-> c[guid], cache |-> c, queries |-> 0, hit |-> TRUE]
              ELSE QueryCfForMetadata(c, guid, res, now)
         ELSE [ret |-> c[guid], cache |-> c, queries |-> 0, hit |-> TRUE]
    ELSE QueryCfForMetadata(c, guid, res, now)

\* the result of GetAppInfo applying the freshness test to every non-zero period
GetAppInfoResultNoForever(c, period, guid, res, now) ==
    IF period # 0 /\ guid \in DOMAIN c /\ Fresh(c[guid].LastQueried, now, period)
    THEN [ret |-> c[guid], cache |-> c, queries |-> 0, hit |-> TRUE]
    ELSE QueryCfForMetadata(c, guid, res, now)

\* GetAppInfo as a function of the cache, the period, the identifier, the
\* answer the external lookup would give, and the time
GetAppInfoResult(c, period, guid, res, now) ==
    IF period # 0 /\ guid \in DOMAIN c
    THEN IF period > 0
         THEN IF Fresh(c[guid].LastQueried, now, period)
              THEN [ret |-> c[guid], cache |-> c, queries |-> 0, hit |-> TRUE]
              ELSE QueryCfForMetadata(c, guid, res, now)
         ELSE [ret |-> c[guid], cache |-> c, queries |-> 0, hit |-> TRUE]
    ELSE QueryCfForMetadata(c, guid, res, now)

NoCall ==
    [op |-> "none", guid |-> "", now |-> ZeroTime, queries |-> 0, ok |-> FALSE,
     hit |-> FALSE, ret |-> ZeroAppInfo, resolved |-> FALSE, prior |-> ZeroAppInfo]

\* the calling threads of the repository
Threads == {"t1", "t2"}

Idle == [pc |-> "idle", guid |-> "", appInfo |-> ZeroAppInfo]

\* no thread is in a call
CallersUnused ==
    /\ threads = [t \in Threads |-> Idle]
    /\ fatal = FALSE

\* the repository, where none is under consideration
AppUnused ==
    /\ cache = EmptyMap
    /\ appMetadataCachePeriod = 0
    /\ lastCall = NoCall
    /\ lastOk = EmptyMap
    /\ CallersUnused

\* one call of GetAppInfo(guid); res is what cfClient.AppByGuid answers if asked
GetAppInfo(guid, res) ==
    LET r == GetAppInfoResult(cache, appMetadataCachePeriod, guid, res, clock)
        ok == r.queries > 0 /\ ~res.err
    IN  /\ cache' = r.cache
        /\ lastCall' = [op |-> "GetAppInfo", guid |-> guid, now |-> clock,
                        queries |-> r.queries, ok |-> ok, hit |-> r.hit,
                        ret |-> r.ret,
                        resolved |-> guid \in DOMAIN lastOk,
                        prior |-> IF guid \in DOMAIN lastOk
                                  THEN lastOk[guid] ELSE ZeroAppInfo]
        /\ lastOk' = IF ok THEN MapPut(lastOk, guid, BuildAppInfo(res.app, clock))
                     ELSE lastOk
        /\ UNCHANGED <<clock, appMetadataCachePeriod>>
        /\ UNCHANGED <<callerVars, logVars, sinkVars, lastReport, descriptors, lastInit>>

\* NewAppInfoRepository(cfClient, appMetadataCachePeriod): an empty cache
InitAppInfo ==
    /\ clock = 1
    /\ cache = EmptyMap
    /\ appMetadataCachePeriod \in -1..MaxPeriod
    /\ lastCall = NoCall
    /\ lastOk = EmptyMap
    /\ CallersUnused
    /\ LogUnused
    /\ SinkUnused

TickAppInfo ==
    /\ Tick
    /\ UNCHANGED <<appVars, callerVars, logVars, sinkVars, lastReport, descriptors, lastInit>>

NextAppInfo ==
    \/ \E guid \in Guids, res \in LookupResults : GetAppInfo(guid, res)
    \/ TickAppInfo

SpecAppInfo == InitAppInfo /\ [][NextAppInfo]_vars

(***************************************************************************)
(* appInfoRepository under several calling threads.  GetAppInfo takes no   *)
(* lock; a thread is inside the map read of line 60 while its pc is        *)
(* "reading" and inside the map assignment of line 92 while it is          *)
(* "writing".                                                              *)
(***************************************************************************)
\* the cache as a read can find it while other threads are inside a write
CacheViews(t) ==
    {cache} \cup {MapPut(cache, threads[w].guid, threads[w].appInfo) :
                     w \in {u \in Threads \ {t} : threads[u].pc = "writing"}}

\* thread t is inside a map access while another thread is inside a write
Racing(t) ==
    /\ threads[t].pc \in {"reading", "writing"}
    /\ \E u \in Threads \ {t} : threads[u].pc = "writing"

\* GetAppInfo(guid) is entered: the test of appMetadataCachePeriod
GetAppInfoBegin(t, guid) ==
    /\ ~fatal
    /\ threads[t].pc = "idle"
    /\ threads' = [threads EXCEPT ![t] =
                      [pc |-> IF appMetadataCachePeriod # 0
                              THEN "reading" ELSE "querying",
                       guid |-> guid, appInfo |-> ZeroAppInfo]]
    /\ UNCHANGED <<clock, cache, appMetadataCachePeriod, lastCall, lastOk, fatal>>
    /\ UNCHANGED <<logVars, sinkVars, lastReport, descriptors, lastInit>>

\* appInfo, ok := air.cache[guid] and the tests on it
CacheRead(t) ==
    /\ ~fatal
    /\ threads[t].pc = "reading"
    /\ \E c \in CacheViews(t) :
          LET guid == threads[t].guid
              hit == /\ guid \in DOMAIN c
                     /\ appMetadataCachePeriod > 0 =>
                            Fresh(c[guid].LastQueried, clock, appMetadataCachePeriod)
          IN  threads' = [threads EXCEPT ![t] =
                             IF hit THEN Idle ELSE [@ EXCEPT !.pc = "querying"]]
    /\ UNCHANGED <<clock, cache, appMetadataCachePeriod, lastCall, lastOk, fatal>>
    /\ UNCHANGED <<logVars, sinkVars, lastReport, descriptors, lastInit>>

\* air.cfClient.AppByGuid(guid) answers res; on success the AppInfo is built
CfQuery(t, res) ==
    /\ ~fatal
    /\ threads[t].pc = "querying"
    /\ threads' = [threads EXCEPT ![t] =
                      IF res.err THEN Idle
                      ELSE [@ EXCEPT !.pc = "writing",
                                     !.appInfo = BuildAppInfo(res.app, clock)]]
    /\ UNCHANGED <<clock, cache, appMetadataCachePeriod, lastCall, lastOk, fatal>>
    /\ UNCHANGED <<logVars, sinkVars, lastReport, descriptors, lastInit>>

\* air.cache[guid] = appInfo completes, and the call returns
CacheWrite(t) ==
    /\ ~fatal
    /\ threads[t].pc = "writing"
    /\ cache' = MapPut(cache, threads[t].guid, threads[t].appInfo)
    /\ threads' = [threads EXCEPT ![t] = Idle]
    /\ UNCHANGED <<clock, appMetadataCachePeriod, lastCall, lastOk, fatal>>
    /\ UNCHANGED <<logVars, sinkVars, lastReport, descriptors, lastInit>>

\* the runtime notices the concurrent map access of thread t and ends the
\* process ("fatal error: concurrent map read and map write")
MapFault(t) ==
    /\ ~fatal
    /\ Racing(t)
    /\ fatal' = TRUE
    /\ UNCHANGED <<clock, appVars, threads>>
    /\ UNCHANGED <<logVars, sinkVars, lastReport, descriptors, lastInit>>

TickCallers ==
    /\ ~fatal
    /\ clock < MaxCallerClock
    /\ clock' = clock + 1
    /\ UNCHANGED <<appVars, callerVars, logVars, sinkVars, lastReport, descriptors, lastInit>>

InitCallers ==
    /\ clock = 1
    /\ cache = EmptyMap
    /\ appMetadataCachePeriod \in -1..MaxPeriod
    /\ lastCall = NoCall
    /\ lastOk = EmptyMap
    /\ CallersUnused
    /\ LogUnused
    /\ SinkUnused

NextCallers ==
    \/ \E t \in Threads, guid \in Guids : GetAppInfoBegin(t, guid)
    \/ \E t \in Threads : CacheRead(t)
    \/ \E t \in Threads, res \in LookupResults : CfQuery(t, res)
    \/ \E t \in Threads : CacheWrite(t)
    \/ \E t \in Threads : MapFault(t)
    \/ TickCallers

SpecCallers == InitCallers /\ [][NextCallers]_vars

(***************************************************************************)
(* telemetrySink: the values a snapshot can hold                           *)
(***************************************************************************)
maxTimeSeries == 200

\* the labels of the i-th Counter of a CounterMap: every other entry carries a
\* key that the global labels carry too
EntryLabels(i) ==
    IF i % 2 = 1 THEN [foundation |-> "other"] ELSE [job |-> "router"]

\* telemetry.Counter
Counter(lbls, v) == [kind |-> "Counter", Labels |-> lbls, value |-> v]

\* telemetry.CounterMap with n Counters, in the order Do visits them
CounterMap(n) ==
    [kind |-> "CounterMap", LabelKeys |-> <<"foundation", "job">>,
     entries |-> [i \in 1..n |-> Counter(EntryLabels(i), i)]]

MapSizes == {2, maxTimeSeries - 1, maxTimeSeries, maxTimeSeries + 1}

\* the shapes of expvar values a snapshot entry is drawn from
Shapes ==
    {[kind |-> "Counter"], [kind |-> "String"]}
    \cup {[kind |-> "CounterMap", n |-> n] : n \in MapSizes}

\* the expvar.Var of a shape
SeriesValue(shape) ==
    CASE shape.kind = "Counter" -> Counter(<<>>, 5)
      [] shape.kind = "CounterMap" -> CounterMap(shape.n)
      [] OTHER -> [kind |-> "String", s |-> "x"]

\* the []*expvar.KeyValue of a sequence of shapes
KeyValues(shapes) ==
    [i \in 1..Len(shapes) |-> [Key |-> KeyNames[i], Value |-> SeriesValue(shapes[i])]]

ShapeSeqs(maxLen) == UNION {[1..n -> Shapes] : n \in 0..maxLen}

(***************************************************************************)
(* telemetrySink.Report                                                    *)
(***************************************************************************)
\* fmt.Sprintf("custom.googleapis.com/%s", key)
metricDescriptorType(key) == StrCustom \o key

\* fmt.Sprintf("%s/metricDescriptors/%s", ts.projectPath, ts.metricDescriptorType(key))
metricDescriptorName(key) ==
    projectPath \o StrMetricDescriptors \o metricDescriptorType(key)

newRequest == [Name |-> projectPath, TimeSeries |-> <<>>]

\* merge(a, b): a map filled from b first and then from a
merge(a, b) ==
    [k \in DOMAIN a \cup DOMAIN b |-> IF k \in DOMAIN a THEN a[k] ELSE b[k]]

timeSeriesInt(metricType, interval, lbls, value) ==
    [MetricKind |-> "CUMULATIVE",
     ValueType |-> "INT64",
     Metric |-> [Type |-> metricType, Labels |-> lbls],
     Points |-> << [Interval |-> interval, Value |-> value] >>,
     Resource |-> resource]

IsCounter(v) == v.kind = "Counter"

\* the points of one snapshot entry, with only the first Counter of a CounterMap
timeSeriesFirstOnly(metricType, interval, val) ==
    CASE val.Value.kind = "Counter" ->
            << timeSeriesInt(metricType, interval, labels, val.Value.value) >>
      [] val.Value.kind = "CounterMap" ->
            LET cs == SelectSeq(val.Value.entries, IsCounter)
            IN  [i \in 1..(IF Len(cs) > 0 THEN 1 ELSE 0) |->
                    timeSeriesInt(metricType, interval,
                                  merge(labels, cs[i].Labels), cs[i].value)]
      [] OTHER -> <<>>

\* the points of one snapshot entry
timeSeries(metricType, interval, val) ==
    CASE val.Value.kind = "Counter" ->
            << timeSeriesInt(metricType, interval, labels, val.Value.value) >>
      [] val.Value.kind = "CounterMap" ->
            LET cs == SelectSeq(val.Value.entries, IsCounter)
            IN  [i \in 1..Len(cs) |->
                    timeSeriesInt(metricType, interval,
                                  merge(labels, cs[i].Labels), cs[i].value)]
      [] OTHER -> <<>>

\* the logger.Error call of timeSeries
timeSeriesLog(val) ==
    IF val.Value.kind \in {"Counter", "CounterMap"}
    THEN <<>>
    ELSE << "telemetrySink.timeSeries" >>

\* ts.client.Post(req) and the logger.Error call that follows a failure
Post(st, fail) ==
    [st EXCEPT !.posts = Append(st.posts, [Name |-> st.req.Name,
                                           TimeSeries |-> st.req.TimeSeries,
                                           err |-> fail]),
               !.log = IF fail THEN Append(st.log, "telemetrySink.Report") ELSE st.log]

\* Report, up to the loop: a new request and the interval of the call
ReportBegin(shapes) ==
    /\ lastReport.pc \in {"none", "done"}
    /\ lastReport' = [pc |-> "loop", shapes |-> shapes, i |-> 1, req |-> newRequest,
                      interval |-> [StartTime |-> startTime, EndTime |-> clock],
                      at |-> clock, posts |-> <<>>, log |-> <<>>]
    /\ UNCHANGED <<clock, appVars, callerVars, logVars, sinkVars, descriptors, lastInit>>

\* an iteration of the loop of Report that keeps the points of a request
\* whose Post failed, to submit them again with the next request
ReportIterRetry(fail) ==
    /\ lastReport.pc = "loop"
    /\ lastReport.i <= Len(lastReport.shapes)
    /\ LET data == KeyValues(lastReport.shapes)[lastReport.i]
           st == [lastReport EXCEPT
                    !.req.TimeSeries =
                        @ \o timeSeries(metricDescriptorType(data.Key),
                                        lastReport.interval, data),
                    !.log = @ \o timeSeriesLog(data),
                    !.i = @ + 1]
       IN  IF Len(st.req.TimeSeries) = maxTimeSeries
           THEN lastReport' = IF fail THEN Post(st, fail)
                              ELSE [Post(st, fail) EXCEPT !.req = newRequest]
           ELSE /\ ~fail
                /\ lastReport' = st
    /\ UNCHANGED <<clock, appVars, callerVars, logVars, sinkVars, descriptors, lastInit>>

\* an iteration of the loop of Report that takes the end of the interval anew
ReportIterFreshInterval(fail) ==
    /\ lastReport.pc = "loop"
    /\ lastReport.i <= Len(lastReport.shapes)
    /\ LET data == KeyValues(lastReport.shapes)[lastReport.i]
           st == [lastReport EXCEPT
                    !.req.TimeSeries =
                        @ \o timeSeries(metricDescriptorType(data.Key),
                                        [StartTime |-> startTime, EndTime |-> clock],
                                        data),
                    !.log = @ \o timeSeriesLog(data),
                    !.i = @ + 1]
       IN  IF Len(st.req.TimeSeries) = maxTimeSeries
           THEN lastReport' = [Post(st, fail) EXCEPT !.req = newRequest]
           ELSE /\ ~fail
                /\ lastReport' = st
    /\ UNCHANGED <<clock, appVars, callerVars, logVars, sinkVars, descriptors, lastInit>>

\* one iteration of the loop of Report; fail is whether client.Post, if it is
\* called, returns an error
ReportIter(fail) ==
    /\ lastReport.pc = "loop"
    /\ lastReport.i <= Len(lastReport.shapes)
    /\ LET data == KeyValues(lastReport.shapes)[lastReport.i]
           st == [lastReport EXCEPT
                    !.req.TimeSeries =
                        @ \o timeSeries(metricDescriptorType(data.Key),
                                        lastReport.interval, data),
                    !.log = @ \o timeSeriesLog(data),
                    !.i = @ + 1]
       IN  IF Len(st.req.TimeSeries) = maxTimeSeries
           THEN lastReport' = [Post(st, fail) EXCEPT !.req = newRequest]
           ELSE /\ ~fail
                /\ lastReport' = st
    /\ UNCHANGED <<clock, appVars, callerVars, logVars, sinkVars, descriptors, lastInit>>

\* the end of Report without the Post of what is left
ReportEndNoFinal(fail) ==
    /\ lastReport.pc = "loop"
    /\ lastReport.i > Len(lastReport.shapes)
    /\ ~fail
    /\ lastReport' = [lastReport EXCEPT !.pc = "done"]
    /\ UNCHANGED <<clock, appVars, callerVars, logVars, sinkVars, descriptors, lastInit>>

\* Report, after the loop: the Post of what is left
ReportEnd(fail) ==
    /\ lastReport.pc = "loop"
    /\ lastReport.i > Len(lastReport.shapes)
    /\ IF Len(lastReport.req.TimeSeries) # 0
       THEN lastReport' = [Post(lastReport, fail) EXCEPT !.pc = "done"]
       ELSE /\ ~fail
            /\ lastReport' = [lastReport EXCEPT !.pc = "done"]
    /\ UNCHANGED <<clock, appVars, callerVars, logVars, sinkVars, descriptors, lastInit>>

\* NewTelemetrySink, at some time after the zero time
InitReport ==
    /\ clock = 1
    /\ labels \in {GlobalLabels("sub", f) : f \in Foundations}
    /\ startTime = clock
    /\ resource = GlobalResource
    /\ lastReport = NoReport
    /\ descriptors = {}
    /\ lastInit = NoInit
    /\ AppUnused
    /\ LogUnused

TickSink ==
    /\ clock < MaxSinkClock
    /\ clock' = clock + 1
    /\ UNCHANGED <<appVars, callerVars, logVars, sinkVars, lastReport, descriptors, lastInit>>

NextReport ==
    \/ \E shapes \in ShapeSeqs(MaxEntries) : ReportBegin(shapes)
    \/ \E fail \in BOOLEAN : ReportIter(fail)
    \/ \E fail \in BOOLEAN : ReportEnd(fail)
    \/ TickSink

SpecReport == InitReport /\ [][NextReport]_vars

(***************************************************************************)
(* telemetrySink.Init and the backend's metric descriptors                 *)
(***************************************************************************)
\* the value a known series holds: the metrics of the nozzle's own prefix
\* are CounterMaps, the others scalar Counters
KnownShape(k) ==
    IF HasPrefix(KeyNames[k], StrFilterPrefix)
    THEN [kind |-> "CounterMap", n |-> 2]
    ELSE [kind |-> "Counter"]

\* the known series Init is called with, as indices of their keys: distinct keys
SeriesSeqs(maxLen) ==
    UNION { { q \in [1..n -> 1..Len(KeyNames)] :
                \A a, b \in 1..n : a # b => q[a] # q[b] } : n \in 0..maxLen }

\* the *expvar.KeyValue of one known series
SeriesKeyValue(k) == [Key |-> KeyNames[k], Value |-> SeriesValue(KnownShape(k))]

\* the orders in which "for name := range ts.labels" can visit the keys
LabelOrders ==
    { o \in [1..Cardinality(DOMAIN labels) -> DOMAIN labels] :
         \A a, b \in DOMAIN o : a # b => o[a] # o[b] }

LabelDescriptor(key) == [Key |-> key, ValueType |-> "STRING"]

\* the label schema of a series: the global labels in the order the map
\* iteration gives, then the LabelKeys of a CounterMap
LabelSchema(series, order) ==
    [j \in 1..Len(order) |-> LabelDescriptor(order[j])]
    \o (IF series.Value.kind = "CounterMap"
        THEN [j \in 1..Len(series.Value.LabelKeys) |->
                 LabelDescriptor(series.Value.LabelKeys[j])]
        ELSE <<>>)

\* the CreateMetricDescriptorRequest of a series
CreateRequest(series, order) ==
    [Name |-> projectPath,
     MetricDescriptor |->
        [DisplayName |-> series.Key,
         Name |-> metricDescriptorName(series.Key),
         Type |-> metricDescriptorType(series.Key),
         Labels |-> LabelSchema(series, order),
         MetricKind |-> "CUMULATIVE",
         ValueType |-> "INT64",
         Description |-> "stackdriver-nozzle created custom metric."]]

\* the ListMetricDescriptorsRequest of Init
ListRequest == [Name |-> projectPath, FilterTypeStartsWith |-> StrFilterPrefix]

\* the backend's answer to a list request: the descriptors it holds whose
\* type starts with the prefix of the filter
ListMetricDescriptors(req) ==
    {d \in descriptors : HasPrefix(d.Type, req.FilterTypeStartsWith)}

\* the backend after it accepted a creation: it keeps the descriptor, in
\* place of any descriptor of the same name
Accept(req) ==
    {d \in descriptors : d.Name # req.MetricDescriptor.Name}
    \cup {req.MetricDescriptor}

\* a descriptor of the backend that no sink created, of a type that the
\* filter of the list request selects
ForeignDescriptor ==
    [DisplayName |-> KeyNozzleEv,
     Name |-> projectPath \o StrMetricDescriptors \o KeyNozzleEv,
     Type |-> KeyNozzleEv,
     Labels |-> <<>>,
     MetricKind |-> "CUMULATIVE",
     ValueType |-> "INT64",
     Description |-> ""]

\* a descriptor a MetricClient can answer the list request with: of a type the
\* filter selects, under the name Init gives the series ev
ListedDescriptor ==
    [DisplayName |-> KeyEv,
     Name |-> metricDescriptorName(KeyEv),
     Type |-> StrFilterPrefix \o <<"/">> \o KeyEv,
     Labels |-> <<>>,
     MetricKind |-> "CUMULATIVE",
     ValueType |-> "INT64",
     Description |-> ""]

InitDone(st) == st.pc = "loop" /\ st.i > Len(st.series)

\* Init, up to the loop over the series: the list request and the set of
\* registered names; listErr is whether ListMetricDescriptors fails
InitBegin(series, listErr) ==
    /\ lastInit.pc = "none" \/ InitDone(lastInit)
    /\ LET found == IF listErr THEN {} ELSE ListMetricDescriptors(ListRequest)
       IN  lastInit' =
              [pc |-> "loop", series |-> series, i |-> 1,
               repeat |-> /\ InitDone(lastInit)
                          /\ lastInit.series = series
                          /\ lastInit.log = <<>>,
               listErr |-> listErr,
               registered |-> {d.Name : d \in found},
               creates |-> <<>>,
               log |-> IF listErr THEN << "telemetrySink.ListMetricDescriptors" >>
                       ELSE <<>>]
    /\ UNCHANGED <<clock, appVars, callerVars, logVars, sinkVars, lastReport, descriptors>>

\* the loop of Init left at the first CreateMetricDescriptor that fails
InitIterStopOnError(order, fail) ==
    /\ lastInit.pc = "loop"
    /\ lastInit.i <= Len(lastInit.series)
    /\ LET series == SeriesKeyValue(lastInit.series[lastInit.i])
           name == metricDescriptorName(series.Key)
           req == CreateRequest(series, order)
       IN  IF name \in lastInit.registered
           THEN /\ ~fail
                /\ order = CHOOSE o \in LabelOrders : TRUE
                /\ lastInit' = [lastInit EXCEPT !.i = @ + 1]
                /\ UNCHANGED descriptors
           ELSE /\ lastInit' =
                     [lastInit EXCEPT
                        !.i = IF fail THEN Len(lastInit.series) + 1 ELSE @ + 1,
                        !.creates = Append(@, [req |-> req, err |-> fail]),
                        !.log = IF fail
                                THEN Append(@, "telemetrySink.CreateMetricDescriptor")
                                ELSE @]
                /\ descriptors' = IF fail THEN descriptors ELSE Accept(req)
    /\ UNCHANGED <<clock, appVars, callerVars, logVars, sinkVars, lastReport>>

\* one iteration of the loop of Init: nothing for a registered name, else one
\* CreateMetricDescriptor request, which fails when fail holds
InitIter(order, fail) ==
    /\ lastInit.pc = "loop"
    /\ lastInit.i <= Len(lastInit.series)
    /\ LET series == SeriesKeyValue(lastInit.series[lastInit.i])
           name == metricDescriptorName(series.Key)
           req == CreateRequest(series, order)
       IN  IF name \in lastInit.registered
           THEN /\ ~fail
                /\ order = CHOOSE o \in LabelOrders : TRUE
                /\ lastInit' = [lastInit EXCEPT !.i = @ + 1]
                /\ UNCHANGED descriptors
           ELSE /\ lastInit' =
                     [lastInit EXCEPT
                        !.i = @ + 1,
                        !.creates = Append(@, [req |-> req, err |-> fail]),
                        !.log = IF fail
                                THEN Append(@, "telemetrySink.CreateMetricDescriptor")
                                ELSE @]
                /\ descriptors' = IF fail THEN descriptors ELSE Accept(req)
    /\ UNCHANGED <<clock, appVars, callerVars, logVars, sinkVars, lastReport>>

\* NewTelemetrySink against a backend that may hold descriptors already
InitRegistry ==
    /\ clock = 1
    /\ labels \in {GlobalLabels("sub", f) : f \in Foundations}
    /\ startTime = clock
    /\ resource = GlobalResource
    /\ lastReport = NoReport
    /\ descriptors \in SUBSET {ForeignDescriptor, ListedDescriptor}
    /\ lastInit = NoInit
    /\ AppUnused
    /\ LogUnused

NextRegistry ==
    \/ \E series \in SeriesSeqs(MaxSeries), listErr \in BOOLEAN :
          InitBegin(series, listErr)
    \/ \E order \in LabelOrders, fail \in BOOLEAN : InitIter(order, fail)

SpecRegistry == InitRegistry /\ [][NextRegistry]_vars

(***************************************************************************)
(* logSink: strings are sequences of characters; a JSON text is read by    *)
(* the grammar  object ::= "null" | "{" [member ("," member)*] "}",        *)
(* member ::= string ":" (string | digits), without white space or escapes.*)
(***************************************************************************)
Quote == "\""

Digits == {"0", "1", "2", "3", "4", "5", "6", "7", "8", "9"}

NewlineChars == <<"\n">>

KeyMsg ==
    <<"m", "s", "g">>

KeyMessage ==
    <<"m", "e", "s", "s", "a", "g", "e">>

KeyMessageType ==
    <<"m", "e", "s", "s", "a", "g", "e", "_", "t", "y", "p", "e">>

KeyAppId ==
    <<"a", "p", "p", "_", "i", "d">>

KeyFoo ==
    <<"f", "o", "o">>

StrNull ==
    <<"n", "u", "l", "l">>

StrEmptyObject ==
    <<"{", "}">>

TokenPercent ==
    <<"%", "%", "%">>


\* the raw messages of the LogMessage envelopes under consideration
RawMsgFoo ==
    <<"{", "\"", "m", "s", "g", "\"", ":", "\"", "h", "i", "\"", ",",
      "\"", "f", "o", "o", "\"", ":", "\"", "b", "a", "r", "\"", "}">>

RawToken ==
    <<"a", "%", "%", "%", "b">>

RawOverride ==
    <<"{", "\"", "m", "s", "g", "\"", ":", "\"", "x", "\"", ",", "\"",
      "m", "e", "s", "s", "a", "g", "e", "_", "t", "y", "p", "e", "\"",
      ":", "\"", "Z", "\"", ",", "\"", "m", "e", "s", "s", "a", "g", "e",
      "\"", ":", "\"", "m", "\"", ",", "\"", "a", "p", "p", "_", "i",
      "d", "\"", ":", "\"", "z", "\"", "}">>

RawMsgNumber ==
    <<"{", "\"", "m", "s", "g", "\"", ":", "7", ",", "\"", "a", "p", "p",
      "_", "i", "d", "\"", ":", "\"", "z", "\"", "}">>

RawUnclosed ==
    <<"{", "\"", "f", "o", "o", "\"", ":", "\"", "b", "a", "r", "\"",
      "%", "%", "%">>

RawJSONString ==
    <<"\"", "h", "i", "\"">>

RawMsgToken ==
    <<"{", "\"", "m", "s", "g", "\"", ":", "\"", "a", "%", "%", "%", "b",
      "\"", "}">>

RawTrailing ==
    <<"{", "}", "%", "%", "%", "x", "%", "%", "%">>


RawMessages ==
    {RawMsgFoo, RawToken, RawOverride, RawMsgNumber, RawUnclosed,
     RawJSONString, RawMsgToken, RawTrailing, StrNull}

StrBoom ==
    <<"b", "o", "o", "m">>

StrAppA ==
    <<"a", "p", "p", "-", "a">>

StrAppPath ==
    <<"/", "o", "r", "g", "/", "s", "p", "a", "c", "e", "/", "a", "p",
      "p", "-", "a">>


\* delete(m, k)
MapDelete(m, k) == [x \in DOMAIN m \ {k} |-> m[x]]

EmptyObject == [x \in {} |-> <<>>]

\* events.Envelope_EventType.String() and events.LogMessage_MessageType.String()
EventTypeString(t) ==
    CASE t = "Envelope_LogMessage" -> "LogMessage"
      [] t = "Envelope_Error" -> "Error"
      [] t = "Envelope_HttpStartStop" -> "HttpStartStop"
      [] t = "Envelope_ValueMetric" -> "ValueMetric"

MessageTypeString(t) ==
    CASE t = "LogMessage_OUT" -> <<"O", "U", "T">>
      [] t = "LogMessage_ERR" -> <<"E", "R", "R">>

\* an envelope: the nil pointer, or the event type, the timestamp and the
\* fields of the one sub-message the event type names
Envelope(eventType, timestamp, message, messageType, value) ==
    [nil |-> FALSE, eventType |-> eventType, timestamp |-> timestamp,
     message |-> message, messageType |-> messageType, appId |-> StrAppA,
     value |-> value]

NilEnvelope ==
    [nil |-> TRUE, eventType |-> "", timestamp |-> 0, message |-> <<>>,
     messageType |-> "", appId |-> <<>>, value |-> ""]

Envelopes ==
    {NilEnvelope}
    \cup {Envelope("Envelope_LogMessage", 5, m, "LogMessage_ERR", "") :
             m \in RawMessages}
    \cup {Envelope("Envelope_LogMessage", t, m, "LogMessage_OUT", "") :
             t \in {0, 5}, m \in {RawMsgFoo, RawToken}}
    \cup {Envelope("Envelope_Error", 5, m, "", "") : m \in {StrBoom, RawToken}}
    \cup {Envelope("Envelope_HttpStartStop", 5, <<>>, "", "")}
    \cup {Envelope("Envelope_ValueMetric", 5, <<>>, "", v) : v \in {"finite", "NaN"}}

\* what labelMaker.LogLabels can answer
LabelSets ==
    {[x \in {} |-> <<>>], [applicationPath |-> StrAppPath]}

\* ---- encoding/json as the sink uses it
\* the index of the first quote of s at or after j, 0 if there is none
RECURSIVE ScanQuote(_, _)
ScanQuote(s, j) ==
    IF j > Len(s) THEN 0
    ELSE IF s[j] = Quote THEN j ELSE ScanQuote(s, j + 1)

\* the index after the digits of s that start at j
RECURSIVE ScanDigits(_, _)
ScanDigits(s, j) ==
    IF j <= Len(s) /\ s[j] \in Digits THEN ScanDigits(s, j + 1) ELSE j

ParseFail == [ok |-> FALSE, next |-> 0, val |-> <<>>]

\* the JSON string that opens at s[i] and closes at s[q]; q = 0: it never closes
StringUpTo(s, i, q) ==
    IF q # 0
    THEN [ok |-> TRUE, next |-> q + 1, val |-> SubSeq(s, i + 1, q - 1)]
    ELSE ParseFail

\* a JSON string starting at s[i]
ParseStringAt(s, i) ==
    IF i <= Len(s) /\ s[i] = Quote
    THEN StringUpTo(s, i, ScanQuote(s, i + 1))
    ELSE ParseFail

\* a parsed string, as json.Unmarshal stores it in an interface{}
StringValue(r) ==
    IF r.ok THEN [r EXCEPT !.val = [t |-> "string", v |-> r.val]] ELSE ParseFail

\* the number s[i..n-1], as json.Unmarshal stores it in an interface{}
NumberValue(s, i, n) ==
    [ok |-> TRUE, next |-> n, val |-> [t |-> "float64", v |-> SubSeq(s, i, n - 1)]]

\* a JSON value starting at s[i]: a string or a number
ParseValueAt(s, i) ==
    IF i > Len(s) THEN ParseFail
    ELSE IF s[i] = Quote THEN StringValue(ParseStringAt(s, i))
         ELSE IF s[i] \in Digits THEN NumberValue(s, i, ScanDigits(s, i))
              ELSE ParseFail

ParseError == [err |-> TRUE, js |-> EmptyObject]

RECURSIVE ParseMembers(_, _, _)

\* after the member k : v, a comma and more members, or the closing brace
\* that must end s; a later member replaces an earlier one of the same key
MemberEnd(s, js, k, v) ==
    IF ~v.ok \/ v.next > Len(s) THEN ParseError
    ELSE IF s[v.next] = ","
         THEN ParseMembers(s, v.next + 1, MapPut(js, k.val, v.val))
         ELSE IF s[v.next] = "}" /\ v.next = Len(s)
              THEN [err |-> FALSE, js |-> MapPut(js, k.val, v.val)]
              ELSE ParseError

\* after the key k of a member, a colon and the value
MemberValue(s, js, k) ==
    IF ~k.ok \/ k.next > Len(s) \/ s[k.next] # ":" THEN ParseError
    ELSE MemberEnd(s, js, k, ParseValueAt(s, k.next + 1))

\* the members of an object from s[i] on; js holds the members read so far
ParseMembers(s, i, js) ==
    MemberValue(s, js, ParseStringAt(s, i))

\* json.Unmarshal(data, &js) for js of type map[string]interface{}: "null"
\* leaves js nil without an error; anything but an object is an error
Unmarshal(s) ==
    IF s = StrNull \/ s = StrEmptyObject
    THEN [err |-> FALSE, js |-> EmptyObject]
    ELSE IF Len(s) >= 2 /\ s[1] = "{"
         THEN ParseMembers(s, 2, EmptyObject)
         ELSE ParseError

\* json.Marshal returns an UnsupportedValueError for a float64 that is NaN or
\* infinite; the only float64 of these envelopes is the value of a ValueMetric
MarshalFails(envelope) ==
    /\ envelope.eventType = "Envelope_ValueMetric"
    /\ envelope.value # "finite"

\* the map json.Marshal and json.Unmarshal make of a LogMessage
DumpLogMessage(envelope) ==
    (KeyMessage :> [t |-> "base64", v |-> envelope.message])
    @@ (KeyMessageType :> [t |-> "enum", v |-> envelope.messageType])
    @@ (KeyAppId :> [t |-> "string", v |-> envelope.appId])

\* the map json.Marshal and json.Unmarshal make of an envelope
DumpEnvelope(envelope) ==
    [origin |-> <<"r", "t", "r">>,
     eventType |-> [t |-> "enum", v |-> envelope.eventType],
     timestamp |-> [t |-> "float64", v |-> envelope.timestamp]]
    @@ CASE envelope.eventType = "Envelope_LogMessage" ->
               [logMessage |-> DumpLogMessage(envelope)]
         [] envelope.eventType = "Envelope_Error" ->
               [error |-> [message |-> envelope.message]]
         [] envelope.eventType = "Envelope_HttpStartStop" ->
               [httpStartStop |-> [method |-> "enum", peerType |-> "enum",
                                   requestId |-> "UUID"]]
         [] envelope.eventType = "Envelope_ValueMetric" ->
               [valueMetric |-> [value |-> envelope.value]]

\* structToMap(obj), given whether json.Marshal(obj) fails and the map it
\* gives otherwise: (nil, err) or (map, nil)
structToMap(fails, dump) ==
    IF fails THEN [nilMap |-> TRUE, map |-> EmptyObject, err |-> TRUE]
    ELSE [nilMap |-> FALSE, map |-> dump, err |-> FALSE]

\* s[i..] starts with old
HasTokenAt(s, old, i) ==
    /\ i + Len(old) - 1 <= Len(s)
    /\ SubSeq(s, i, i + Len(old) - 1) = old

\* strings.Replace(s, old, new, -1) for a non-empty old, from s[i] on
RECURSIVE ReplaceFrom(_, _, _, _)
ReplaceFrom(s, old, new, i) ==
    IF i > Len(s) THEN <<>>
    ELSE IF HasTokenAt(s, old, i)
         THEN new \o ReplaceFrom(s, old, new, i + Len(old))
         ELSE << s[i] >> \o ReplaceFrom(s, old, new, i + 1)

\* strings.Replace(s, old, new, 1) for a non-empty old, from s[i] on
RECURSIVE ReplaceFirstFrom(_, _, _, _)
ReplaceFirstFrom(s, old, new, i) ==
    IF i > Len(s) THEN <<>>
    ELSE IF HasTokenAt(s, old, i)
         THEN new \o SubSeq(s, i + Len(old), Len(s))
         ELSE << s[i] >> \o ReplaceFirstFrom(s, old, new, i + 1)

\* parseMessage replacing the first newline token only
parseMessageFirstOnly(rawMessage, token) ==
    IF token # <<>>
    THEN ReplaceFirstFrom(rawMessage, token, NewlineChars, 1)
    ELSE rawMessage

\* ls.parseMessage(rawMessage)
parseMessage(rawMessage, token) ==
    IF token # <<>>
    THEN ReplaceFrom(rawMessage, token, NewlineChars, 1)
    ELSE rawMessage

\* parseSeverity with the two results exchanged
parseSeveritySwapped(messageType) ==
    IF messageType = "LogMessage_ERR" THEN "Default" ELSE "Error"

\* parseSeverity(messageType)
parseSeverity(messageType) ==
    IF messageType = "LogMessage_ERR" THEN "Error" ELSE "Default"

\* js["msg"].(string) holds
HasStringMsg(js) ==
    /\ KeyMsg \in DOMAIN js
    /\ js[KeyMsg].t = "string"

\* the message of a LogMessage whose raw message json.Unmarshal read as u
LogMessageText(envelope, token, u) ==
    IF ~u.err /\ HasStringMsg(u.js)
    THEN u.js[KeyMsg].v
    ELSE parseMessage(envelope.message, token)

\* logMessageMap after the keys of js, less a string msg, are copied into it
LogMessageMerged(logMessageMap, u) ==
    IF u.err THEN logMessageMap
    ELSE (IF HasStringMsg(u.js) THEN MapDelete(u.js, KeyMsg) ELSE u.js)
            @@ logMessageMap

\* the else branch of the case events.Envelope_LogMessage
LogMessageParsed(envelope, payload, token, logMessageMap, u) ==
    [payload |->
        MapPut(MapPut(payload, "message", LogMessageText(envelope, token, u)),
               "logMessage",
               MapDelete(MapPut(LogMessageMerged(logMessageMap, u), KeyMessageType,
                                [t |-> "string",
                                 v |-> MessageTypeString(envelope.messageType)]),
                         KeyMessage)),
     severity |-> parseSeverity(envelope.messageType),
     errors |-> <<>>]

\* the case events.Envelope_LogMessage, sub being structToMap(logMessage)
LogMessageDumped(envelope, payload, token, sub) ==
    IF sub.err
    THEN [payload |-> payload, severity |-> "Default",
          errors |-> << "error parsing logMessage" >>]
    ELSE LogMessageParsed(envelope, payload, token, sub.map,
                          Unmarshal(envelope.message))

\* the case events.Envelope_LogMessage of parseEnvelope, on the payload so far
LogMessageCase(envelope, payload, token) ==
    LogMessageDumped(envelope, payload, token,
                     structToMap(FALSE, DumpLogMessage(envelope)))

NoLog == [Payload |-> EmptyObject, Labels |-> EmptyObject, Severity |-> "Default"]

\* payload["eventType"] and payload["timestamp"]
BasePayload(envelope, payload) ==
    IF envelope.timestamp # 0
    THEN MapPut(MapPut(payload, "eventType", EventTypeString(envelope.eventType)),
                "timestamp", [t |-> "int64", v |-> envelope.timestamp])
    ELSE MapPut(payload, "eventType", EventTypeString(envelope.eventType))

\* the switch on envelope.GetEventType()
EventTypeCase(envelope, payload, token) ==
    CASE envelope.eventType = "Envelope_LogMessage" ->
            LogMessageCase(envelope, payload, token)
      [] envelope.eventType = "Envelope_Error" ->
            [payload |-> MapPut(payload, "message", envelope.message),
             severity |-> "Error", errors |-> <<>>]
      [] envelope.eventType = "Envelope_HttpStartStop" ->
            [payload |-> MapPut(payload, "httpStartStop",
                                [method |-> "GET", peerType |-> "Client",
                                 requestId |-> "formatted UUID"]),
             severity |-> "Default", errors |-> <<>>]
      [] OTHER ->
            [payload |-> payload, severity |-> "Default", errors |-> <<>>]

\* payload["serviceContext"], for a non-empty labels["applicationPath"]
ServiceContext(payload, lbls) ==
    IF "applicationPath" \in DOMAIN lbls /\ lbls["applicationPath"] # <<>>
    THEN MapPut(payload, "serviceContext", [service |-> lbls["applicationPath"]])
    ELSE payload

\* the messages.Log of parseEnvelope, c being the outcome of the switch
BuildLog(lbls, errors, c) ==
    [panic |-> FALSE,
     log |-> [Payload |-> ServiceContext(c.payload, lbls), Labels |-> lbls,
              Severity |-> c.severity],
     errors |-> errors \o c.errors]

\* parseEnvelope, dump being structToMap(envelope): the log and what was
\* logged, or the panic of the assignment to an entry of the nil map that
\* structToMap returns with its error
EnvelopeDumped(envelope, lbls, token, dump, errors) ==
    IF dump.nilMap
    THEN [panic |-> TRUE, log |-> NoLog, errors |-> errors]
    ELSE BuildLog(lbls, errors,
                  EventTypeCase(envelope, BasePayload(envelope, dump.map), token))

\* what parseEnvelope logs about structToMap(envelope)
DumpErrors(envelope) ==
    IF MarshalFails(envelope) THEN << "error parsing envelope" >> ELSE <<>>

\* ls.parseEnvelope(envelope), with lbls what labelMaker.LogLabels answers
parseEnvelope(envelope, lbls, token) ==
    EnvelopeDumped(envelope, lbls, token,
                   structToMap(MarshalFails(envelope), DumpEnvelope(envelope)),
                   DumpErrors(envelope))

\* Receive after parseEnvelope returned r or panicked: PostLog(&log)
PostLog(r, arrival) ==
    /\ errLog' = errLog \o [k \in 1..Len(r.errors) |->
                              [arrival |-> arrival, msg |-> r.errors[k]]]
    /\ panicked' = r.panic
    /\ posted' = IF r.panic THEN posted
                 ELSE Append(posted, [arrival |-> arrival, log |-> r.log])

\* one call of ls.Receive(envelope); a panic ends the receiving goroutine
Receive(envelope, lbls) ==
    /\ ~panicked
    /\ Len(received) < MaxReceive
    /\ received' = Append(received, envelope)
    /\ IF envelope.nil
       THEN UNCHANGED <<posted, errLog, panicked>>
       ELSE PostLog(parseEnvelope(envelope, lbls, newlineToken), Len(received) + 1)
    /\ UNCHANGED <<clock, appVars, callerVars, newlineToken>>
    /\ UNCHANGED <<sinkVars, lastReport, descriptors, lastInit>>

\* NewLogSink(labelMaker, logAdapter, newlineToken, logger)
InitLogSink ==
    /\ clock = 1
    /\ newlineToken \in {<<>>, TokenPercent}
    /\ received = <<>>
    /\ posted = <<>>
    /\ errLog = <<>>
    /\ panicked = FALSE
    /\ AppUnused
    /\ SinkUnused

NextLogSink ==
    \E envelope \in Envelopes, lbls \in LabelSets : Receive(envelope, lbls)

SpecLogSink == InitLogSink /\ [][NextLogSink]_vars

(***************************************************************************)
(* Claims about appInfoRepository, checked under SpecAppInfo.              *)
(***************************************************************************)

\* C4: with a positive freshness window N, a GetAppInfo call for an identifier
\* that an earlier lookup resolved returns that AppInfo without an external
\* query while now - lastQueried < N seconds, and performs a fresh external
\* query once now - lastQueried >= N seconds.
C4_FreshnessWindow ==
    (lastCall.op = "GetAppInfo" /\ appMetadataCachePeriod > 0 /\ lastCall.resolved)
    => IF lastCall.now - lastCall.prior.LastQueried
              < appMetadataCachePeriod * TicksPerSecond
       THEN lastCall.queries = 0 /\ lastCall.ret = lastCall.prior
       ELSE lastCall.queries = 1

\* a later call inside the window, some time after the lookup, served from the cache
C4_Witness ==
    /\ lastCall.op = "GetAppInfo"
    /\ appMetadataCachePeriod > 0
    /\ lastCall.resolved
    /\ lastCall.now > lastCall.prior.LastQueried
    /\ lastCall.queries = 0
    /\ lastCall.ret = lastCall.prior
    /\ lastCall.ret # ZeroAppInfo

\* C5: a GetAppInfo call whose fresh external lookup succeeds returns the
\* AppInfo built from the lookup result, which is the value it stores in the
\* cache; it returns the zero AppInfo only when the lookup fails.
C5_ReturnsBuiltAppInfo ==
    (lastCall.op = "GetAppInfo" /\ lastCall.queries = 1)
    => IF lastCall.ok
       THEN /\ lastCall.ret = lastOk[lastCall.guid]
            /\ lastCall.ret = cache[lastCall.guid]
            /\ lastCall.ret # ZeroAppInfo
       ELSE lastCall.ret = ZeroAppInfo

\* C6: with freshness window 0 every GetAppInfo call performs exactly one
\* external query and returns nothing read from the cache.
C6_ZeroAlwaysQueries ==
    (lastCall.op = "GetAppInfo" /\ appMetadataCachePeriod = 0)
    => (lastCall.queries = 1 /\ ~lastCall.hit)

\* a call with window 0 for an identifier that an earlier call already resolved
C6_Witness ==
    /\ lastCall.op = "GetAppInfo"
    /\ appMetadataCachePeriod = 0
    /\ lastCall.resolved
    /\ lastCall.queries = 1

\* C7: with freshness window 0 the cache stays empty, whatever calls were made.
C7_ZeroNeverStores ==
    appMetadataCachePeriod = 0 => cache = EmptyMap

\* C8: with a negative freshness window, a GetAppInfo call for an identifier
\* that an earlier lookup resolved returns that AppInfo and performs no
\* external query, however much time has passed.
C8_NegativeCachesForever ==
    (lastCall.op = "GetAppInfo" /\ appMetadataCachePeriod < 0 /\ lastCall.resolved)
    => (lastCall.queries = 0 /\ lastCall.ret = lastCall.prior)

\* a call served from the cache longer after the lookup than any positive window
C8_Witness ==
    /\ lastCall.op = "GetAppInfo"
    /\ appMetadataCachePeriod < 0
    /\ lastCall.resolved
    /\ lastCall.now - lastCall.prior.LastQueried > MaxPeriod * TicksPerSecond
    /\ lastCall.queries = 0
    /\ lastCall.ret # ZeroAppInfo

\* C9: a GetAppInfo call whose external lookup fails returns the zero AppInfo
\* and leaves the cache exactly as it was.
C9_FailureLeavesCache ==
    [][\A guid \in Guids, res \in LookupResults :
          (GetAppInfo(guid, res) /\ lastCall'.queries = 1 /\ res.err)
          => (lastCall'.ret = ZeroAppInfo /\ cache' = cache)]_vars

\* a failed lookup for an identifier whose stale entry is still in the cache
C9_Witness ==
    /\ lastCall.op = "GetAppInfo"
    /\ lastCall.queries = 1
    /\ ~lastCall.ok
    /\ lastCall.ret = ZeroAppInfo
    /\ lastCall.guid \in DOMAIN cache
    /\ cache[lastCall.guid] = lastCall.prior
    /\ appMetadataCachePeriod > 0

(***************************************************************************)
(* Claims about telemetrySink.Report, checked under SpecReport.            *)
(***************************************************************************)

\* the Counters a snapshot entry stands for, in order: a scalar Counter is
\* itself, a CounterMap is its Counter entries, anything else is nothing
SourceCounters(val) ==
    CASE val.Value.kind = "Counter" -> << [fromMap |-> FALSE, counter |-> val.Value] >>
      [] val.Value.kind = "CounterMap" ->
            LET cs == SelectSeq(val.Value.entries, IsCounter)
            IN  [j \in 1..Len(cs) |-> [fromMap |-> TRUE, counter |-> cs[j]]]
      [] OTHER -> <<>>

RECURSIVE SnapshotCounters(_, _)
SnapshotCounters(report, i) ==
    IF i > Len(report) THEN <<>>
    ELSE SourceCounters(report[i]) \o SnapshotCounters(report, i + 1)

\* the points of the requests handed to Post, in submission order
RECURSIVE PostedPoints(_, _)
PostedPoints(posts, i) ==
    IF i > Len(posts) THEN <<>>
    ELSE posts[i].TimeSeries \o PostedPoints(posts, i + 1)

\* b laid over a copy of a: b's value wins where both have the key
Overlay(a, b) ==
    [k \in DOMAIN a \cup DOMAIN b |-> IF k \in DOMAIN b THEN b[k] ELSE a[k]]

\* C1: every request handed to MetricClient.Post carries at most 200
\* time-series points.
C1_BatchCeiling ==
    \A n \in 1..Len(lastReport.posts) :
        Len(lastReport.posts[n].TimeSeries) <= maxTimeSeries

\* C2: a snapshot that yields N points makes Report issue exactly ceil(N/200)
\* Post calls, every one but the last with exactly 200 points and the last
\* with the remainder; N = 0 gives no Post call.
C2_BatchCount ==
    lastReport.pc = "done" =>
        LET N == Len(SnapshotCounters(KeyValues(lastReport.shapes), 1))
            k == Len(lastReport.posts)
        IN  /\ k = (N + maxTimeSeries - 1) \div maxTimeSeries
            /\ \A n \in 1..k :
                  Len(lastReport.posts[n].TimeSeries) =
                      IF n < k THEN maxTimeSeries ELSE N - maxTimeSeries * (k - 1)

\* C3: the point reported for a CounterMap entry carries the entry's own labels
\* laid over a copy of the global labels: every key of either mapping, with
\* the entry's value for a key present in both.
C3_EntryLabelsWin ==
    lastReport.pc = "done" =>
        LET src == SnapshotCounters(KeyValues(lastReport.shapes), 1)
            pts == PostedPoints(lastReport.posts, 1)
        IN  /\ Len(pts) = Len(src)
            /\ \A j \in 1..Len(src) :
                  src[j].fromMap =>
                      pts[j].Metric.Labels = Overlay(labels, src[j].counter.Labels)

(***************************************************************************)
(* Claims about telemetrySink.Init, checked under SpecRegistry.            *)
(***************************************************************************)

\* C10: when Init is called twice in a row with the same known series, against
\* a backend that kept every descriptor of the first call and answers the
\* list request by its filter, the second call issues no
\* CreateMetricDescriptor request.
C10_InitIdempotent ==
    (InitDone(lastInit) /\ lastInit.repeat /\ ~lastInit.listErr)
    => Len(lastInit.creates) = 0

\* the known series of a call whose descriptor name is not among the listed
\* names, in the order of the call
RECURSIVE Unregistered(_, _, _)
Unregistered(series, registered, i) ==
    IF i > Len(series) THEN <<>>
    ELSE (IF metricDescriptorName(KeyNames[series[i]]) \in registered
          THEN <<>> ELSE << series[i] >>)
         \o Unregistered(series, registered, i + 1)

\* C11: one Init call issues a CreateMetricDescriptor request for every known
\* series whose descriptor name is not in the listed set and for no series
\* whose name is in it, whether or not earlier creations of the call failed.
C11_CreatesMissing ==
    InitDone(lastInit) =>
        LET todo == Unregistered(lastInit.series, lastInit.registered, 1)
        IN  /\ Len(lastInit.creates) = Len(todo)
            /\ \A j \in 1..Len(todo) :
                  /\ lastInit.creates[j].req.MetricDescriptor.Name
                        = metricDescriptorName(KeyNames[todo[j]])
                  /\ lastInit.creates[j].req.MetricDescriptor.Type
                        = metricDescriptorType(KeyNames[todo[j]])

\* a call with a listed series, a failed creation and a creation after it
C11_Witness ==
    /\ InitDone(lastInit)
    /\ Len(lastInit.series) = 3
    /\ Len(lastInit.creates) = 2
    /\ lastInit.creates[1].err
    /\ ~lastInit.creates[2].err

\* the requests Report hands to Post when no Post fails: the loop of Report
\* from entry i on, with the points ts in the request
RECURSIVE FailureFreeBatches(_, _, _, _)
FailureFreeBatches(report, i, ts, interval) ==
    IF i > Len(report)
    THEN IF Len(ts) # 0 THEN << ts >> ELSE <<>>
    ELSE LET ts1 == ts \o timeSeries(metricDescriptorType(report[i].Key),
                                     interval, report[i])
         IN  IF Len(ts1) = maxTimeSeries
             THEN << ts1 >> \o FailureFreeBatches(report, i + 1, <<>>, interval)
             ELSE FailureFreeBatches(report, i + 1, ts1, interval)

\* C12: a failed Post changes nothing of what Report submits afterwards: the
\* requests of a call are, one for one, the requests of the same call with no
\* failure; the failed request is not submitted again.
C12_FailedPostNoEffect ==
    lastReport.pc = "done" =>
        [n \in 1..Len(lastReport.posts) |-> lastReport.posts[n].TimeSeries]
            = FailureFreeBatches(KeyValues(lastReport.shapes), 1, <<>>,
                                 lastReport.interval)

\* a call whose first Post failed and whose final, smaller request was posted
C12_Witness ==
    /\ lastReport.pc = "done"
    /\ Len(lastReport.posts) = 2
    /\ lastReport.posts[1].err
    /\ Len(lastReport.posts[1].TimeSeries) = maxTimeSeries
    /\ Len(lastReport.posts[2].TimeSeries) < maxTimeSeries
    /\ lastReport.log = << "telemetrySink.Report" >>

\* the number of points the specification gives one snapshot value
PointCount(value) ==
    CASE value.kind = "Counter" -> 1
      [] value.kind = "CounterMap" -> Len(value.entries)
      [] OTHER -> 0

\* the number of points of the first n entries of a snapshot
RECURSIVE PointsBefore(_, _)
PointsBefore(report, n) ==
    IF n = 0 THEN 0
    ELSE PointsBefore(report, n - 1) + PointCount(report[n].Value)

\* C18: in a finished Report call a scalar Counter has exactly one submitted
\* point, with exactly the global labels; a CounterMap has one point per map
\* entry; any other value has no point and one error log, and the entries after
\* it have their points all the same.
C18_PointsPerShape ==
    lastReport.pc = "done" =>
        LET report == KeyValues(lastReport.shapes)
            pts == PostedPoints(lastReport.posts, 1)
        IN  /\ Len(pts) = PointsBefore(report, Len(report))
            /\ \A n \in 1..Len(report) :
                  /\ \A j \in 1..PointCount(report[n].Value) :
                        pts[PointsBefore(report, n - 1) + j].Metric.Type
                            = metricDescriptorType(report[n].Key)
                  /\ report[n].Value.kind = "Counter" =>
                        LET p == pts[PointsBefore(report, n - 1) + 1]
                        IN  /\ p.Metric.Labels = labels
                            /\ p.Points[1].Value = report[n].Value.value
            /\ Cardinality({k \in 1..Len(lastReport.log) :
                               lastReport.log[k] = "telemetrySink.timeSeries"})
                  = Cardinality({n \in 1..Len(report) :
                                    PointCount(report[n].Value) = 0})

\* a call whose first entry has an unknown shape and is followed by a
\* CounterMap, all of whose points were submitted
C18_Witness ==
    /\ lastReport.pc = "done"
    /\ Len(lastReport.shapes) = 2
    /\ lastReport.shapes[1].kind = "String"
    /\ lastReport.shapes[2].kind = "CounterMap"
    /\ Len(PostedPoints(lastReport.posts, 1)) = maxTimeSeries + 1
    /\ lastReport.log = << "telemetrySink.timeSeries" >>

\* every point of the call in progress or finished, posted or still in the
\* request, carries the interval from startTime to the time of the call
IntervalsOk ==
    LET want == [StartTime |-> startTime, EndTime |-> lastReport.at]
        pts == PostedPoints(lastReport.posts, 1) \o lastReport.req.TimeSeries
    IN  \A k \in 1..Len(pts) : pts[k].Points[1].Interval = want

\* C19: no step changes startTime, and after every step all points of the
\* current Report call, over all its requests, carry the one interval
\* {startTime, time at which the call began}.
C19_OneInterval ==
    [][startTime' = startTime /\ IntervalsOk']_vars

\* a finished call with two requests, begun after the construction of the sink
\* and with time having passed since it began
C19_Witness ==
    /\ lastReport.pc = "done"
    /\ Len(lastReport.posts) = 2
    /\ lastReport.at > startTime
    /\ clock > lastReport.at
    /\ IntervalsOk

\* the points of a snapshot, in snapshot order
RECURSIVE ProducedPoints(_, _, _)
ProducedPoints(report, i, interval) ==
    IF i > Len(report) THEN <<>>
    ELSE timeSeries(metricDescriptorType(report[i].Key), interval, report[i])
            \o ProducedPoints(report, i + 1, interval)

\* C20: in a finished Report call the point lists of the Post requests, put
\* one after the other in submission order, are the points produced from the
\* snapshot in snapshot order, whichever Posts failed.
C20_NoPointLostOrDuplicated ==
    lastReport.pc = "done" =>
        PostedPoints(lastReport.posts, 1)
            = ProducedPoints(KeyValues(lastReport.shapes), 1, lastReport.interval)

\* a call of several requests whose last Post only failed
C20_Witness ==
    /\ lastReport.pc = "done"
    /\ Len(lastReport.posts) >= 2
    /\ ~lastReport.posts[1].err
    /\ lastReport.posts[Len(lastReport.posts)].err
    /\ Len(lastReport.posts[Len(lastReport.posts)].TimeSeries) > 0

\* C13: no two threads are inside accesses of the cache map at the same
\* time when one of the accesses is a write.
C13_NoConcurrentMapAccess ==
    \A t \in Threads : ~Racing(t)

(***************************************************************************)
(* Claims about logSink, checked under SpecLogSink.                        *)
(***************************************************************************)

\* the positions from n on in received that hold an envelope, in order
RECURSIVE NonNilArrivals(_)
NonNilArrivals(n) ==
    IF n > Len(received) THEN <<>>
    ELSE (IF received[n].nil THEN <<>> ELSE << n >>) \o NonNilArrivals(n + 1)

\* C14: over the Receive calls so far, PostLog was called once for every
\* envelope that was not nil, in arrival order, and for no nil envelope; no
\* error was logged for a nil envelope.
C14_PostLogOncePerEnvelope ==
    /\ [k \in 1..Len(posted) |-> posted[k].arrival] = NonNilArrivals(1)
    /\ \A k \in 1..Len(errLog) : ~received[errLog[k].arrival].nil

\* C15: every envelope received that was not nil, one whose generic dump
\* failed included, has a log whose payload holds eventType, the string of
\* its event type.
C15_EventTypeAlways ==
    \A n \in 1..Len(received) :
        ~received[n].nil =>
            \E k \in 1..Len(posted) :
                /\ posted[k].arrival = n
                /\ "eventType" \in DOMAIN posted[k].log.Payload
                /\ posted[k].log.Payload["eventType"]
                      = EventTypeString(received[n].eventType)

ReshapedAs(envelope, payload, u) ==
    /\ (~u.err /\ HasStringMsg(u.js)) =>
          /\ payload["message"] = u.js[KeyMsg].v
          /\ \A key \in DOMAIN u.js \ {KeyMsg, KeyMessage, KeyMessageType} :
                /\ key \in DOMAIN payload["logMessage"]
                /\ payload["logMessage"][key] = u.js[key]
          /\ payload["logMessage"][KeyMessageType]
                = [t |-> "string", v |-> MessageTypeString(envelope.messageType)]
          /\ KeyMsg \notin DOMAIN payload["logMessage"]
          /\ KeyMessage \notin DOMAIN payload["logMessage"]
    /\ u.err =>
          payload["message"]
             = IF newlineToken = <<>> THEN envelope.message
               ELSE ReplaceFrom(envelope.message, newlineToken, NewlineChars, 1)

\* C17: for the log of a LogMessage whose raw message is a JSON object with a
\* string msg: message is that msg, logMessage holds every key of the object
\* other than msg, message and message_type with the parsed value, its
\* message_type is the string of the message type, and it holds neither msg
\* nor message.  When the raw message is no JSON object, message is the raw
\* message with every newline token, if the token is not empty, replaced by
\* a newline.
C17_LogMessageReshaping ==
    \A k \in 1..Len(posted) :
        received[posted[k].arrival].eventType = "Envelope_LogMessage" =>
            ReshapedAs(received[posted[k].arrival], posted[k].log.Payload,
                       Unmarshal(received[posted[k].arrival].message))

\* the two examples of the specification in one run, and a raw message with
\* two newline tokens
C17_Witness ==
    /\ newlineToken = TokenPercent
    /\ Len(posted) = 2
    /\ received[1].message = RawMsgFoo
    /\ received[1].messageType = "LogMessage_ERR"
    /\ posted[1].log.Severity = "Error"
    /\ posted[1].log.Payload["message"] = <<"h", "i">>
    /\ posted[1].log.Payload["logMessage"][KeyFoo]
          = [t |-> "string", v |-> <<"b", "a", "r">>]
    /\ DOMAIN posted[1].log.Payload["logMessage"]
          = {KeyFoo, KeyMessageType, KeyAppId}
    /\ received[2].message = RawToken
    /\ received[2].eventType = "Envelope_LogMessage"
    /\ posted[2].log.Payload["message"] = <<"a", "\n", "b">>

=============================================================================
